---- MODULE Spec2Model ----
(***************************************************************************)
(* Model of 02_load_data.py: the CSV -> SQL Server loader.                 *)
(*                                                                         *)
(* One process run of the script is a linear walk of `pc` through the      *)
(* module-level imports, the __main__ block and load_data_to_sql().  The   *)
(* environment (installed packages, the CSV file, the dbo.Customers table, *)
(* the reachability of the server) is part of the state; the script may be *)
(* run again after it has ended (Restart), against the table the previous  *)
(* run left behind.                                                        *)
(***************************************************************************)
EXTENDS Integers, Sequences, FiniteSets, TLC

VARIABLES
    pc,           \* position of the process in the script
    runs,         \* number of process runs started so far
    installed,    \* environment: packages present in site-packages
    imported,     \* packages this process has imported
    installDone,  \* subprocess.check_call(pip install) has returned
    fileExists,   \* environment: CSV_PATH.exists()
    file,         \* environment: content of the CSV file
    df,           \* the DataFrame local of load_data_to_sql
    engine,       \* the engine local: create_engine() has returned
    conn,         \* handle of `with engine.connect() as conn`
    wconn,        \* connection to_sql checks out of the engine itself
    connAttempts, \* connections this process has attempted to open
    writes,       \* write operations (to_sql calls) this process has issued
    tableCols,    \* dbo.Customers: column list, <<>> when the table is absent
    tableRows,    \* dbo.Customers: rows, in insertion order
    exc,          \* exception in flight / handled in load_data_to_sql
    result,       \* return value of load_data_to_sql
    out,          \* lines printed by this process
    steps,        \* steps this process has executed (history)
    colsBefore,   \* tableCols when this process started (history)
    rowsBefore,   \* tableRows when this process started (history)
    rows0,        \* tableRows in the initial state (history)
    okRuns        \* invocations that returned True so far (history)

vars == <<pc, runs, installed, imported, installDone, fileExists, file, df,
          engine, conn, wconn, connAttempts, writes, tableCols, tableRows,
          exc, result, out, steps, colsBefore, rowsBefore, rows0, okRuns>>

(***************************************************************************)
(* Bounds                                                                  *)
(***************************************************************************)
MaxRows == 2        \* data lines in the CSV file
MaxInitRows == 1    \* rows in dbo.Customers before the first run
MaxRuns == 2        \* process runs

ColNames == {"id", "name"}
Values == {1, 2}    \* cell values of the CSV
OldValues == {9}    \* cell values of the rows provisioned before the first run
Null == 0           \* SQL NULL

Libs == {"pandas", "sqlalchemy", "pymssql"}

\* site-packages before the first run: nothing, the two packages the module
\* imports at its top, or all three
InstalledSets == {{}, {"pandas", "sqlalchemy"}, Libs}

Range(s) == {s[i] : i \in 1..Len(s)}

\* sequences of distinct column names
ColLists(n) == {h \in [1..n -> ColNames] : \A i, j \in 1..n : i # j => h[i] # h[j]}
Headers == UNION {ColLists(n) : n \in 1..Cardinality(ColNames)}

SeqsUpTo(S, n) == UNION {[1..k -> S] : k \in 0..n}

\* The CSV file: a header line and data lines of as many fields.  The empty
\* file (no header line) is the malformed one.
EmptyFile == [hdr |-> <<>>, body |-> <<>>]
Files == {EmptyFile} \cup
         UNION {{[hdr |-> h, body |-> b] : b \in SeqsUpTo([1..Len(h) -> Values], MaxRows)}
                : h \in Headers}


(***************************************************************************)
(* pandas / SQLAlchemy operations the script calls                         *)
(***************************************************************************)
NoFrame == [cols |-> <<>>, rows |-> <<>>]

Index(h, c) == CHOOSE i \in 1..Len(h) : h[i] = c

\* read_csv that takes the first data line for a second header line
read_csv_skip(f) ==
    [cols |-> f.hdr,
     rows |-> [i \in 1..(Len(f.body) - 1) |->
                 [c \in Range(f.hdr) |-> f.body[i + 1][Index(f.hdr, c)]]]]

\* pd.read_csv(CSV_PATH): raises EmptyDataError on a file without a header
\* line; otherwise the first line names the columns and every later line is
\* one row, its i-th field filed under the i-th column name.
read_csv_ok(f) == Len(f.hdr) > 0

read_csv(f) ==
    [cols |-> f.hdr,
     rows |-> [i \in 1..Len(f.body) |->
                 [c \in Range(f.hdr) |-> f.body[i][Index(f.hdr, c)]]]]

\* len(df)
len(frame) == Len(frame.rows)

\* df.isnull().sum()[df.isnull().sum() > 0]: the columns that have a null
missing(frame) ==
    {c \in Range(frame.cols) : \E i \in 1..Len(frame.rows) : frame.rows[i][c] = Null}

HeadRows == 3

\* df.head(3)
head(frame) == IF len(frame) < HeadRows THEN len(frame) ELSE HeadRows

\* to_sql: the INSERT names the frame's columns, so the table must have each
\* of them; an absent table is created from the frame.
SchemaAccepts(tcols, frame) ==
    tcols = <<>> \/ Range(frame.cols) \subseteq Range(tcols)

TargetCols(tcols, frame) == IF tcols = <<>> THEN frame.cols ELSE tcols

\* an INSERT that fills the table's columns by position
InsertRowByPosition(tcols, cols, r) ==
    [c \in Range(tcols) |->
        IF Index(tcols, c) <= Len(cols) THEN r[cols[Index(tcols, c)]] ELSE Null]

\* one inserted row: each frame column goes to the table column of the same
\* name, a table column the frame lacks is NULL
InsertRow(tcols, cols, r) ==
    [c \in Range(tcols) |-> IF c \in Range(cols) THEN r[c] ELSE Null]

\* the first k rows of the frame as the INSERT stores them
Inserted(tcols, frame, k) ==
    [i \in 1..k |-> InsertRow(TargetCols(tcols, frame), frame.cols, frame.rows[i])]

\* if_exists='replace'
if_exists_replace(old, new) == new

\* an append that skips the rows the table already holds
if_exists_append_dedup(old, new) ==
    old \o SelectSeq(new, LAMBDA r : \A i \in 1..Len(old) : old[i] # r)

\* if_exists='append'
if_exists_append(old, new) == old \o new

\* a store that keeps what a failed statement inserted
RollbackNone(before, during) == during

\* to_sql runs in one transaction: a failure rolls back what it inserted
Rollback(before, during) == before

Line(tag, n, msg) == [tag |-> tag, n |-> n, msg |-> msg]

Say(tag) == Line(tag, 0, "")

(***************************************************************************)
(* Initial states                                                          *)
(***************************************************************************)
InitTables ==
    {[cols |-> <<>>, rows |-> <<>>]} \cup
    UNION {{[cols |-> h, rows |-> r]
            : r \in SeqsUpTo([Range(h) -> OldValues], MaxInitRows)} : h \in Headers}

Init ==
    /\ pc = "import"
    /\ runs = 1
    /\ installed \in InstalledSets
    /\ imported = {}
    /\ installDone = FALSE
    /\ fileExists \in BOOLEAN
    /\ file \in Files
    /\ df = NoFrame
    /\ engine = FALSE
    /\ conn = "none"
    /\ wconn = "none"
    /\ connAttempts = 0
    /\ writes = 0
    /\ \E t \in InitTables :
          /\ tableCols = t.cols
          /\ tableRows = t.rows
          /\ colsBefore = t.cols
          /\ rowsBefore = t.rows
          /\ rows0 = t.rows
    /\ exc = "none"
    /\ result = "none"
    /\ out = <<>>
    /\ steps = <<>>
    /\ okRuns = 0

env == <<installed, fileExists, file>>
table == <<tableCols, tableRows>>
hist == <<colsBefore, rowsBefore, rows0>>
handles == <<engine, conn, wconn, connAttempts, writes>>

(***************************************************************************)
(* Module level and __main__                                               *)
(***************************************************************************)
\* lines 8-18: the module-level imports run first, whatever __name__ is
ImportModules ==
    /\ pc = "import"
    /\ steps' = Append(steps, "import")
    /\ IF {"pandas", "sqlalchemy"} \subseteq installed
       THEN /\ imported' = imported \cup {"pandas", "sqlalchemy"}
            /\ pc' = "install"
       ELSE /\ imported' = imported      \* ModuleNotFoundError, uncaught
            /\ pc' = "crashed"
    /\ UNCHANGED <<runs, env, installDone, df, handles, table, exc, result,
                   out, hist, okRuns>>

\* lines 59-63: pip install; check_call raises CalledProcessError, uncaught
InstallPackages ==
    /\ pc = "install"
    /\ steps' = Append(steps, "install")
    /\ out' = Append(out, Say("installing"))
    /\ \E ok \in BOOLEAN :
          IF ok
          THEN /\ installed' = Libs
               /\ installDone' = TRUE
               /\ pc' = "banner"
          ELSE /\ UNCHANGED <<installed, installDone>>
               /\ pc' = "crashed"
    /\ UNCHANGED <<runs, imported, fileExists, file, df, handles, table, exc,
                   result, hist, okRuns>>

\* lines 65-68: the banner, then the call of load_data_to_sql
Banner ==
    /\ pc = "banner"
    /\ steps' = Append(steps, "banner")
    /\ out' = out \o <<Say("rule"), Say("banner"), Say("rule")>>
    /\ pc' = "exists"
    /\ UNCHANGED <<runs, env, imported, installDone, df, handles, table, exc,
                   result, hist, okRuns>>

(***************************************************************************)
(* load_data_to_sql                                                        *)
(***************************************************************************)
\* line 24: `not CSV_PATH.exists()`
NotExists(e) == ~e

NotFoundReturnTrue == "True"

\* line 26: the value returned when the file is missing
NotFoundReturn == "False"

\* a handler for parse errors only
CaughtNarrow(e) == e = "EmptyDataError"

\* line 54: `except Exception` catches every error the steps raise
Caught(e) == TRUE

\* line 56: the value returned by the handler
ExceptReturn == "False"

\* a connection that is opened without a with block
WithExitLeak(c) == c

\* line 45 and the end of the with block: conn.close()
WithExit(c) == "closed"

FinalMessageSwapped(success) == IF success = "True" THEN "failed" ELSE "completed"

\* lines 70-73: the final line
FinalMessage(success) == IF success = "True" THEN "completed" ELSE "failed"

\* lines 24-26
CheckExists ==
    /\ pc = "exists"
    /\ steps' = Append(steps, "exists")
    /\ IF NotExists(fileExists)
       THEN /\ out' = Append(out, Say("notfound"))
            /\ result' = NotFoundReturn
            /\ pc' = "final"
       ELSE /\ UNCHANGED <<out, result>>
            /\ pc' = "read"
    /\ UNCHANGED <<runs, env, imported, installDone, df, handles, table, exc,
                   hist, okRuns>>

\* lines 30-32
ReadCsv ==
    /\ pc = "read"
    /\ steps' = Append(steps, "read")
    /\ IF fileExists /\ read_csv_ok(file)
       THEN /\ df' = read_csv(file)
            /\ out' = out \o <<Say("reading"),
                               Line("loaded", len(read_csv(file)), "")>>
            /\ exc' = exc
            /\ pc' = "preview"
       ELSE /\ df' = df
            /\ out' = Append(out, Say("reading"))
            /\ exc' = IF fileExists THEN "EmptyDataError" ELSE "FileNotFoundError"
            /\ pc' = "except"
    /\ UNCHANGED <<runs, env, imported, installDone, handles, table, result,
                   hist, okRuns>>

\* lines 34-39
Preview ==
    /\ pc = "preview"
    /\ steps' = Append(steps, "preview")
    /\ out' = out \o <<Line("preview", head(df), ""),
                       Line("columns", Len(df.cols), "")>>
                  \o (IF Cardinality(missing(df)) > 0
                      THEN <<Line("missing", Cardinality(missing(df)), "")>>
                      ELSE <<>>)
    /\ pc' = "engine"
    /\ UNCHANGED <<runs, env, imported, installDone, df, handles, table, exc,
                   result, hist, okRuns>>

\* lines 41-42: create_engine loads the pymssql driver, connects to nothing
CreateEngine ==
    /\ pc = "engine"
    /\ steps' = Append(steps, "engine")
    /\ out' = Append(out, Say("connecting"))
    /\ IF "pymssql" \in installed
       THEN /\ imported' = imported \cup {"pymssql"}
            /\ engine' = TRUE
            /\ exc' = exc
            /\ pc' = "connect"
       ELSE /\ UNCHANGED <<imported, engine>>
            /\ exc' = "ModuleNotFoundError"
            /\ pc' = "except"
    /\ UNCHANGED <<runs, env, installDone, df, conn, wconn, connAttempts,
                   writes, table, result, hist, okRuns>>

\* line 44: engine.connect(); the server may be unreachable, the login refused
Connect ==
    /\ pc = "connect"
    /\ steps' = Append(steps, "connect")
    /\ connAttempts' = connAttempts + 1
    /\ \E reachable \in BOOLEAN :
          IF reachable
          THEN /\ conn' = "open"
               /\ exc' = exc
               /\ pc' = "connected"
          ELSE /\ conn' = conn
               /\ exc' = "OperationalError"
               /\ pc' = "except"
    /\ UNCHANGED <<runs, env, imported, installDone, df, engine, wconn,
                   writes, table, result, out, hist, okRuns>>

\* line 45: the body of the with block, and the block's exit
Connected ==
    /\ pc = "connected"
    /\ steps' = Append(steps, "connected")
    /\ out' = Append(out, Say("connected"))
    /\ conn' = WithExit(conn)
    /\ pc' = "upload"
    /\ UNCHANGED <<runs, env, imported, installDone, df, engine, wconn,
                   connAttempts, writes, table, exc, result, hist, okRuns>>

\* lines 47-48: to_sql is handed the engine and opens its own connection
UploadBegin ==
    /\ pc = "upload"
    /\ steps' = Append(steps, "upload")
    /\ out' = Append(out, Say("uploading"))
    /\ writes' = writes + 1
    /\ connAttempts' = connAttempts + 1
    /\ \E reachable \in BOOLEAN :
          IF reachable
          THEN /\ wconn' = "open"
               /\ exc' = exc
               /\ pc' = "writing"
          ELSE /\ wconn' = wconn
               /\ exc' = "OperationalError"
               /\ pc' = "except"
    /\ UNCHANGED <<runs, env, imported, installDone, df, engine, conn, table,
                   result, hist, okRuns>>

\* line 48: the INSERT of to_sql, its commit or rollback, and the release of
\* its connection.  `ok` is whether the server accepts every row (types,
\* constraints, the link staying up); k rows were sent when it does not.
UploadEnd ==
    /\ pc = "writing"
    /\ steps' = Append(steps, "written")
    /\ wconn' = "closed"
    /\ \E ok \in BOOLEAN, k \in 0..len(df) :
          IF ok /\ SchemaAccepts(tableCols, df)
          THEN /\ tableCols' = TargetCols(tableCols, df)
               /\ tableRows' = if_exists_append(tableRows,
                                                Inserted(tableCols, df, len(df)))
               /\ exc' = exc
               /\ pc' = "success"
          ELSE /\ tableCols' = tableCols
               /\ tableRows' = Rollback(tableRows,
                                        tableRows \o Inserted(tableCols, df, k))
               /\ exc' = IF SchemaAccepts(tableCols, df)
                         THEN "IntegrityError" ELSE "ProgrammingError"
               /\ pc' = "except"
    /\ UNCHANGED <<runs, env, imported, installDone, df, engine, conn,
                   connAttempts, writes, result, out, hist, okRuns>>

\* lines 50-52
ReportSuccess ==
    /\ pc = "success"
    /\ steps' = Append(steps, "success")
    /\ out' = out \o <<Line("success", len(df), ""), Say("ready")>>
    /\ result' = "True"
    /\ okRuns' = okRuns + 1
    /\ pc' = "final"
    /\ UNCHANGED <<runs, env, imported, installDone, df, handles, table, exc,
                   hist>>

\* lines 54-56
HandleException ==
    /\ pc = "except"
    /\ steps' = Append(steps, "except")
    /\ IF Caught(exc)
       THEN /\ out' = Append(out, Line("error", 0, exc))
            /\ result' = ExceptReturn
            /\ pc' = "final"
       ELSE /\ UNCHANGED <<out, result>>
            /\ pc' = "crashed"
    /\ UNCHANGED <<runs, env, imported, installDone, df, handles, table, exc,
                   hist, okRuns>>

\* lines 69-73
FinalLine ==
    /\ pc = "final"
    /\ steps' = Append(steps, "final")
    /\ out' = out \o <<Say("rule"), Say(FinalMessage(result))>>
    /\ pc' = "done"
    /\ UNCHANGED <<runs, env, imported, installDone, df, handles, table, exc,
                   result, hist, okRuns>>

\* the script is run again: a new process, the same packages, file and table
Restart ==
    /\ pc \in {"done", "crashed"}
    /\ runs < MaxRuns
    /\ runs' = runs + 1
    /\ pc' = "import"
    /\ fileExists' \in BOOLEAN
    /\ imported' = {}
    /\ installDone' = FALSE
    /\ df' = NoFrame
    /\ engine' = FALSE
    /\ conn' = "none"
    /\ wconn' = "none"
    /\ connAttempts' = 0
    /\ writes' = 0
    /\ exc' = "none"
    /\ result' = "none"
    /\ out' = <<>>
    /\ steps' = <<>>
    /\ colsBefore' = tableCols
    /\ rowsBefore' = tableRows
    /\ UNCHANGED <<installed, file, table, rows0, okRuns>>

Next ==
    \/ ImportModules
    \/ InstallPackages
    \/ Banner
    \/ CheckExists
    \/ ReadCsv
    \/ Preview
    \/ CreateEngine
    \/ Connect
    \/ Connected
    \/ UploadBegin
    \/ UploadEnd
    \/ ReportSuccess
    \/ HandleException
    \/ FinalLine
    \/ Restart

Spec == Init /\ [][Next]_vars

(***************************************************************************)
(* Properties                                                              *)
(***************************************************************************)
Count(tag) == Cardinality({i \in 1..Len(out) : out[i].tag = tag})

Did(step) == \E i \in 1..Len(steps) : steps[i] = step

\* the rows of the file as a table with columns tcols holds them, read off
\* the file's lines
FileRowsAs(tcols) ==
    [i \in 1..Len(file.body) |->
        [c \in Range(tcols) |->
            IF \E j \in 1..Len(file.hdr) : file.hdr[j] = c
            THEN file.body[i][CHOOSE j \in 1..Len(file.hdr) : file.hdr[j] = c]
            ELSE Null]]

RECURSIVE Copies(_, _)
Copies(s, k) == IF k = 0 THEN <<>> ELSE s \o Copies(s, k - 1)

\* C1: when the CSV path does not exist, an invocation of load_data_to_sql
\* returns False without raising, attempts no connection, creates no engine,
\* issues no write, and leaves the table as it found it.
C1_MissingFileFailsCleanly ==
    (~fileExists /\ Did("exists")) =>
        /\ pc \in {"final", "done"}
        /\ result = "False"
        /\ exc = "none"
        /\ engine = FALSE
        /\ connAttempts = 0
        /\ conn = "none" /\ wconn = "none"
        /\ writes = 0
        /\ tableRows = rowsBefore
        /\ tableCols = colsBefore

C1_Witness ==
    /\ ~fileExists
    /\ pc = "done"
    /\ Did("exists")
    /\ Len(rowsBefore) > 0

\* C2: when load_data_to_sql returns True, the table has grown by exactly the
\* number of data lines of the file, and the success message reports that
\* number.
C2_RowsAppendedEqualsDataRows ==
    result = "True" =>
        /\ Len(tableRows) = Len(rowsBefore) + Len(file.body)
        /\ Count("success") = 1
        /\ \A i \in 1..Len(out) :
              out[i].tag = "success" => out[i].n = Len(file.body)

C2_Witness ==
    /\ result = "True"
    /\ pc = "done"
    /\ Len(file.body) = 2
    /\ Len(rowsBefore) = 1

\* C3: after k invocations that returned True the table holds its initial
\* rows followed by k copies of the file's rows: nothing is skipped or
\* deduplicated.
C3_NotIdempotent ==
    pc # "success" =>
        tableRows = rows0 \o Copies(FileRowsAs(tableCols), okRuns)

C3_Witness ==
    /\ okRuns = 2
    /\ pc = "done"
    /\ Len(file.body) >= 1
    /\ Len(tableRows) = Len(rows0) + 2 * Len(file.body)

\* C4: every step leaves each row of the table in place and unchanged and
\* leaves the columns of an existing table as they are: rows are only added.
C4_AdditiveOnly ==
    [][/\ Len(tableRows') >= Len(tableRows)
       /\ \A i \in 1..Len(tableRows) : tableRows'[i] = tableRows[i]
       /\ tableCols # <<>> => tableCols' = tableCols]_vars

C4_Witness ==
    /\ pc = "done"
    /\ result = "True"
    /\ Len(rowsBefore) >= 1
    /\ Len(tableRows) > Len(rowsBefore)

\* C5: an error raised by a step after the existence check is caught in
\* load_data_to_sql: no later step runs, the message is printed in exactly one
\* error line, and the routine returns False; a False return is announced
\* either by the file-not-found line or by the error line, never both.
C5_FailuresCaught ==
    /\ exc # "none" => pc \in {"except", "final", "done"}
    /\ (exc # "none" /\ pc \in {"final", "done"}) =>
          /\ result = "False"
          /\ Count("error") = 1
          /\ Count("success") = 0
          /\ \A i \in 1..Len(out) : out[i].tag = "error" => out[i].msg = exc
    /\ result = "False" => Count("notfound") + Count("error") = 1
    /\ Did("exists") => pc # "crashed"

C5_Witness ==
    /\ exc = "OperationalError"
    /\ pc = "done"
    /\ writes = 0
    /\ result = "False"

\* C6: when the append fails, the routine returns False and the table is as
\* it was before the invocation: no partially inserted row stays.
C6_FailedAppendLeavesTable ==
    (writes = 1 /\ exc # "none") =>
        /\ tableRows = rowsBefore
        /\ tableCols = colsBefore
        /\ pc \in {"final", "done"} => result = "False"

C6_Witness ==
    /\ exc = "ProgrammingError"
    /\ pc = "done"
    /\ len(df) = 2
    /\ Len(rowsBefore) = 1

\* C7: nothing happens before the installation step has completed: no
\* import of pandas, sqlalchemy or pymssql, no banner, no step of the load
\* routine.
C7_InstallFirst ==
    (imported # {} \/ Did("banner") \/ Did("exists")) => installDone

C9_TableColsEqualHeader ==
    result = "True" => tableCols = file.hdr

\* C9 amended: after a successful load every column of the header is a column
\* of the table, each appended row holds each field of its line under the
\* column of the same name and no value of the file elsewhere (NULL here), a
\* table that existed keeps its column list, and a table the load created has
\* the header as column list.
C9_ColumnsMappedByName ==
    result = "True" =>
        /\ Range(file.hdr) \subseteq Range(tableCols)
        /\ colsBefore # <<>> => tableCols = colsBefore
        /\ colsBefore = <<>> => tableCols = file.hdr
        /\ Len(tableRows) = Len(rowsBefore) + Len(file.body)
        /\ \A i \in 1..Len(file.body) :
              LET r == tableRows[Len(rowsBefore) + i] IN
              /\ DOMAIN r = Range(tableCols)
              /\ \A j \in 1..Len(file.hdr) : r[file.hdr[j]] = file.body[i][j]
              /\ \A c \in Range(tableCols) \ Range(file.hdr) : r[c] = Null

C9_Witness ==
    /\ result = "True"
    /\ Len(file.hdr) = 2
    /\ Len(tableCols) = 2
    /\ tableCols # file.hdr
    /\ \E i \in 1..Len(file.body) : file.body[i][1] # file.body[i][2]

\* C10: the steps of a run happen in the order of the script, each at most
\* once; the file is read only after the existence check passed, a connection
\* is attempted only after read and preview, the append only after the
\* connection was opened and the with block left, True is returned only after
\* the append completed, and the last line printed is the success line
\* exactly when the routine returned True.
StepOrder == <<"import", "install", "banner", "exists", "read", "preview",
               "engine", "connect", "connected", "upload", "written",
               "success", "except", "final">>

Rank(step) == CHOOSE i \in 1..Len(StepOrder) : StepOrder[i] = step

C10_StepOrder ==
    /\ \A i, j \in 1..Len(steps) : i < j => Rank(steps[i]) < Rank(steps[j])
    /\ Did("read") => (Did("exists") /\ fileExists)
    /\ Did("connect") => (Did("read") /\ Did("preview") /\ Did("engine"))
    /\ connAttempts > 0 => Did("connect")
    /\ Did("upload") => (Did("connect") /\ Did("connected"))
    /\ result = "True" => (Did("written") /\ Did("success") /\ ~Did("except")
                           /\ exc = "none")
    /\ connAttempts <= 2
    /\ pc = "done" =>
          out[Len(out)].tag = (IF result = "True" THEN "completed" ELSE "failed")

C10_Witness ==
    /\ pc = "done"
    /\ result = "True"
    /\ connAttempts = 2
    /\ out[Len(out)].tag = "completed"

====
